---- MODULE Spec2Model ----
(***************************************************************************)
(* Model of the assistant orchestration loop of the canvas application     *)
(* (src/index.tsx, src/Components/PromptBar.tsx): the prompt bar's         *)
(* handleRun, handleAssistantSubmit with its model-tier fallback and tool   *)
(* dispatch, the tool helpers (genImageClick, generateNewVideo,             *)
(* runEditImage, bakeOverlayBetweenShapes, handleSaveEditedImage) and the   *)
(* media clients generateImages / generateVideo / editImage.                *)
(*                                                                         *)
(* Every `await` of the source is a step boundary: the code between two    *)
(* awaits is one action.  The language model, the media providers and the  *)
(* user are the environment; their answers are drawn from small sets.      *)
(***************************************************************************)
EXTENDS Integers, Sequences, FiniteSets, TLC

\* ------------------------------------------------------------------ bounds
MaxMessages == 2      \* prompt-bar submissions in one behaviour
MaxToolCalls == 1     \* function-calls the model issues in one behaviour
MaxImages == 2        \* largest numberOfImages the model asks for
MaxPolls == 1         \* polls of a video operation before it reports done
MaxUserImages == 2    \* image shapes the user drops on the canvas
MaxUserDeletes == 1   \* shapes the user deletes by hand
MaxToolbarFlows == 1  \* generations the user starts from the contextual toolbar
MaxUserTexts == 1     \* text shapes the user writes on the canvas

\* ------------------------------------------------------- program constants
GEMINI_MODEL_NAME == "gemini-2.5-pro"
FALLBACK_MODEL_NAME == "gemini-2.5-flash"

\* ------------------------------------------------------------- data shapes
NoSrc == [scheme |-> "none", content |-> "none"]
NoImage == [src |-> NoSrc, shapeId |-> 0]
NoArgs ==
  [prompt |-> "p", numberOfImages |-> 0, baseShapeId |-> 0,
   overlayShapeId |-> 0, steps |-> "absent"]
NoResult == [status |-> "none", text |-> "", count |-> 0]
NoEditing ==
  [assetId |-> 0, src |-> NoSrc, initialPrompt |-> FALSE, overlaySrc |-> NoSrc]

TextPart == [kind |-> "text", name |-> "", args |-> NoArgs]
InlineDataPart == [kind |-> "inlineData", name |-> "", args |-> NoArgs]
FunctionCallPart(n, a) == [kind |-> "functionCall", name |-> n, args |-> a]

Ok(t) == [status |-> "output", text |-> t, count |-> 0]
\* an output that reports a number of generated items
OkCount(t, k) == [status |-> "output", text |-> t, count |-> k]
Err(t) == [status |-> "error", text |-> t, count |-> 0]
\* a tool body that ended with an exception carrying message t
Thrown(t) == [status |-> "thrown", text |-> t, count |-> 0]

\* what handleAssistantSubmit's promise settled to
NoOutcome == [status |-> "none", error |-> ""]
Running == [status |-> "running", error |-> ""]
Returned == [status |-> "returned", error |-> ""]
Threw(msg) == [status |-> "threw", error |-> msg]

\* ids the model may put in baseShapeId / overlayShapeId (0 = omitted)
ExplicitIds == {0, 1, 2}

ToolCalls ==
  {FunctionCallPart(n, NoArgs) :
     n \in {"editImage", "removeBackground", "upscaleImage", "someOtherTool"}}
  \cup {FunctionCallPart("generateVideo", [NoArgs EXCEPT !.prompt = p]) :
          p \in {"", "p"}}
  \cup {FunctionCallPart("generateImage",
          [NoArgs EXCEPT !.prompt = p, !.numberOfImages = k]) :
          p \in {"", "p"}, k \in 0..MaxImages}
  \cup {FunctionCallPart(n,
          [NoArgs EXCEPT !.baseShapeId = b, !.overlayShapeId = o]) :
          n \in {"applyOverlay", "composeAI"}, b \in ExplicitIds, o \in ExplicitIds}
  \cup {FunctionCallPart("plan", [NoArgs EXCEPT !.steps = s]) :
          s \in {"absent", "array", "emptyString", "string", "number"}}

\* what the language model may answer: nothing, a text, a function-call, a
\* text followed by a function-call, or a function-call followed by another
FinalResponses ==
  {<<>>, <<TextPart>>,
   <<TextPart, FunctionCallPart("plan", NoArgs)>>}
CallResponses ==
  {<<c>> : c \in ToolCalls}
  \cup {<<FunctionCallPart("plan", NoArgs), FunctionCallPart("editImage", NoArgs)>>}

\* error messages of a failed chat.sendMessage
SendErrors == {"INTERNAL", "status500", "UNAVAILABLE"}
\* error messages of a failed request later in the submission
LaterErrors == {"INTERNAL", "UNAVAILABLE"}

\* ------------------------------------------------------------------- state
VARIABLES
  \* React state of Ui / PromptBar
  chatHistory, chatSession, assistantImage, lastAssistantImageInChat,
  editingImage, isGenerating,
  \* the toasts raised by the submission in flight
  toasts,
  \* module state
  falVideo, falImage, falKey,
  \* the chat sessions created with ai.chats.create and what each received
  sessions,
  \* canvas document
  shapes, assets, selection, nextId,
  \* activation of handleRun/handleAssistantSubmit
  pc, inv, outcome, msgCount, toolCalls,
  \* activation of the tool being executed
  tool,
  \* observation: tools currently executing, model requests outstanding
  executing, outstanding,
  \* user bookkeeping
  userImages, userDeletes,
  \* the genVideoClick started from the contextual toolbar
  flow

vars ==
  <<chatHistory, chatSession, assistantImage, lastAssistantImageInChat,
    editingImage, isGenerating, toasts, falVideo, falImage, falKey,
    sessions,
    shapes, assets, selection, nextId, pc, inv, outcome, msgCount,
    toolCalls, tool, executing, outstanding, userImages, userDeletes, flow>>

uiVars ==
  <<chatHistory, chatSession, assistantImage, lastAssistantImageInChat,
    editingImage, isGenerating, toasts>>
canvasVars == <<shapes, assets, selection, nextId>>
userVars == <<userImages, userDeletes, flow>>
envVars == <<falVideo, falImage, falKey>>

\* ---------------------------------------------------------- canvas helpers
ImageShape(a) == [type |-> "image", assetId |-> a, from |-> 0, to |-> 0]
TextShape == [type |-> "text", assetId |-> 0, from |-> 0, to |-> 0]
PlaceholderShape == [type |-> "placeholder", assetId |-> 0, from |-> 0, to |-> 0]
ArrowShape(f, t) == [type |-> "arrow", assetId |-> 0, from |-> f, to |-> t]

HasShape(sh, id) == id \in DOMAIN sh
CreateShape(sh, id, rec) == sh @@ (id :> rec)
DeleteShapes(sh, ids) == [i \in (DOMAIN sh) \ ids |-> sh[i]]
\* editor.select keeps only ids of shapes that exist
Select(sh, ids) == ids \cap DOMAIN sh

\* assets: `name` is "file" for a file the user dropped, "sample" for a
\* generated one, "uploaded_image" for the copy generateNewVideo places
ImageAsset(src, name) == [type |-> "image", src |-> src, name |-> name]
VideoAsset ==
  [type |-> "video", src |-> [scheme |-> "data", content |-> "video"],
   name |-> "sample"]
GeoShape == [type |-> "geo", assetId |-> 0, from |-> 0, to |-> 0]
GroupShape == [type |-> "group", assetId |-> 0, from |-> 0, to |-> 0]
VideoShape(a) == [type |-> "video", assetId |-> a, from |-> 0, to |-> 0]

Rank(x, S) == Cardinality({y \in S : y < x})
Smallest(S) == CHOOSE x \in S : \A y \in S : x <= y
\* the text shapes and the (at most one) image shape among the selected shapes
SelectedTexts(sh, sel) == {x \in sel \cap DOMAIN sh : sh[x].type = "text"}
SelectedImage(sh, sel) ==
  LET images == {x \in sel \cap DOMAIN sh : sh[x].type = "image"}
  IN IF images = {} THEN 0 ELSE Smallest(images)

\* image.src.match(/data:(.*);base64,(.*)/)
MatchesDataUrl(src) == src.scheme = "data"

\* the image flows of FalFallbackConfig
ImageFlows == {"text2img", "img2img", "inpaint"}
\* what a generateImages call did: the images it returned or the error it
\* threw, the model attempts of its first pass and of its retry pass, and its
\* calls of a FAL image fallback (the function makes none)
NoGen ==
  [status |-> "none", hasRef |-> FALSE, n |-> 0, i |-> 0, pass |-> 0,
   images |-> 0, images1 |-> 0, calls1 |-> 0, calls2 |-> 0, falCalls |-> 0,
   error |-> ""]
\* what a generateVideo call did
NoVid ==
  [status |-> "none", hasImage |-> FALSE, primary |-> "none", polls |-> 0,
   filtered |-> FALSE, falCalls |-> 0, notified |-> FALSE, videos |-> 0,
   error |-> ""]

\* --------------------------------------------------------------------- Init
\* the content of the message most recently sent by this activation
\* and, for a function-response, the media calls the tool made
\* (gen, vid) and the exception its body raised, if any
NoSent ==
  [parts |-> <<>>, fn |-> TextPart, result |-> NoResult, raised |-> "",
   gen |-> NoGen, vid |-> NoVid, edits |-> 0]
SentUser(parts) == [NoSent EXCEPT !.parts = parts]
SentFunctionResponse(fn, result, raised, g, v, edits) ==
  [NoSent EXCEPT !.fn = fn, !.result = result, !.raised = raised,
                 !.gen = g, !.vid = v, !.edits = edits]
NoInv ==
  [image |-> NoImage, last |-> NoImage, chat |-> 0, userParts |-> <<>>,
   iter |-> 0, sent |-> NoSent, firstError |-> "", transcript |-> <<>>]
\* a genVideoClick started from the contextual toolbar: its own placeholder
\* and the selected shapes its result is connected to
NoFlow == [status |-> "none", placeholderId |-> 0, sources |-> {}, started |-> 0]
NoTool ==
  [status |-> "none", pc |-> "", fn |-> TextPart, result |-> NoResult,
   textShapeId |-> 0, placeholderId |-> 0, baseId |-> 0, overlayId |-> 0,
   n |-> 0, sources |-> {}]


Init ==
  /\ chatHistory = <<>>
  /\ chatSession = 0
  /\ assistantImage = NoImage
  /\ lastAssistantImageInChat = NoImage
  /\ editingImage = NoEditing
  /\ isGenerating = FALSE
  /\ toasts = <<>>
  /\ falVideo = FALSE
  /\ falImage = {}
  /\ falKey \in BOOLEAN
  /\ sessions = <<>>
  /\ shapes = <<>>
  /\ assets = <<>>
  /\ selection = {}
  /\ nextId = 1
  /\ pc = "idle"
  /\ inv = NoInv
  /\ outcome = NoOutcome
  /\ msgCount = 0
  /\ toolCalls = 0
  /\ tool = NoTool
  /\ executing = 0
  /\ outstanding = 0
  /\ userImages = 0
  /\ userDeletes = 0
  /\ flow = NoFlow

\* ------------------------------------------------------------- user actions
\* The user's gestures on the canvas, the toolbar and the fallback panel are
\* taken while the prompt bar is ready for a submission: while a submission is
\* in flight the canvas is changed by the tools only, and gestures that no
\* submission can follow are not explored.
\* the images the user attaches or deletes by hand are the ones the user
\* placed (possibly edited since), not the ones a generation inserted
UserImage(s) ==
  /\ shapes[s].type = "image"
  /\ shapes[s].assetId \in DOMAIN assets
  /\ assets[shapes[s].assetId].name = "file"

UserMayAct ==
  /\ pc = "idle"
  /\ ~isGenerating
  /\ msgCount < MaxMessages

\* the user drops an image file on the canvas and clicks away: tldraw's inline
\* asset store keeps it as a base64 data URL and creates asset + shape
UserInsertImage ==
  /\ UserMayAct
  /\ userImages < MaxUserImages
  /\ assets' = assets @@
       (nextId :> ImageAsset([scheme |-> "data", content |-> "upload"], "file"))
  /\ shapes' = CreateShape(shapes, nextId, ImageShape(nextId))
  /\ selection' = {}
  /\ nextId' = nextId + 1
  /\ userImages' = userImages + 1
  /\ UNCHANGED <<uiVars, envVars, sessions, pc, inv, outcome, msgCount, toolCalls, tool,
                 executing, outstanding, userDeletes, flow>>

\* the user deletes an image shape that is or was attached to the chat (its
\* asset stays in the store)
UserDeleteShape ==
  /\ UserMayAct
  /\ userDeletes < MaxUserDeletes
  /\ \E s \in DOMAIN shapes :
       /\ UserImage(s)
       /\ s \in {assistantImage.shapeId, lastAssistantImageInChat.shapeId}
       /\ shapes' = DeleteShapes(shapes, {s})
       /\ selection' = selection \ {s}
  /\ userDeletes' = userDeletes + 1
  /\ UNCHANGED <<uiVars, envVars, sessions, assets, nextId, pc, inv, outcome,
                 msgCount, toolCalls, tool, executing, outstanding, userImages,
                 flow>>

\* the user selects one image shape and clicks "Use in Chat" in the contextual
\* toolbar (assistant mode, exactly one image selected)
UseInChat ==
  /\ UserMayAct
  /\ \E s \in DOMAIN shapes :
       /\ UserImage(s)
       /\ assistantImage' =
            [src |-> assets[shapes[s].assetId].src, shapeId |-> s]
  /\ selection' = {}
  /\ UNCHANGED <<chatHistory, chatSession, lastAssistantImageInChat,
                 editingImage, isGenerating, toasts, envVars, sessions, shapes,
                 assets, nextId, pc, inv, outcome, msgCount, toolCalls, tool,
                 executing, outstanding, userVars>>

\* the "x" on the attachment chip of the prompt bar
UserClearAssistantImage ==
  /\ UserMayAct
  /\ assistantImage # NoImage
  /\ assistantImage' = NoImage
  /\ UNCHANGED <<chatHistory, chatSession, lastAssistantImageInChat,
                 editingImage, isGenerating, toasts, envVars, sessions,
                 canvasVars, pc, inv, outcome, msgCount, toolCalls, tool, executing,
                 outstanding, userVars>>

\* the "video" checkbox of the fallback panel
ToggleFalVideo ==
  /\ UserMayAct
  /\ falVideo' = ~falVideo
  /\ UNCHANGED <<uiVars, falImage, falKey, sessions, canvasVars, pc, inv,
                 outcome, msgCount, toolCalls, tool, executing, outstanding,
                 userVars>>

\* the "text2img", "img2img" and "inpaint" checkboxes of the fallback panel
ToggleFalImage ==
  /\ UserMayAct
  /\ \E f \in ImageFlows :
       falImage' = IF f \in falImage THEN falImage \ {f} ELSE falImage \cup {f}
  /\ UNCHANGED <<uiVars, falVideo, falKey, sessions, canvasVars, pc, inv,
                 outcome, msgCount, toolCalls, tool, executing, outstanding,
                 userVars>>

\* ------------------------------------------------- handleAssistantSubmit
\* ai.chats.create({model, config: {tools, systemInstruction}}): no `history`
\* is passed, the session starts from an empty conversation
NewSession(model) == [model |-> model, history |-> <<>>, received |-> <<>>]
\* what a session keeps of a message it received: its kind and the number of
\* the user message it belongs to; `resent` marks the resend of the catch block
UserMessage(n, resent) == [kind |-> "user", msg |-> n, resent |-> resent]
FunctionResponseMessage(n) ==
  [kind |-> "functionResponse", msg |-> n, resent |-> FALSE]
\* chat.sendMessage: the session records the message
SendMessage(ss, c, m) ==
  [ss EXCEPT ![c].received = Append(@, m)]

UserParts(prompt, image) ==
  IF image # NoImage /\ MatchesDataUrl(image.src)
    THEN <<TextPart, InlineDataPart>>
    ELSE <<TextPart>>

\* image?.src ?? lastAssistantImageInChat?.src
ImageForToolContext(i) ==
  IF i.image # NoImage THEN i.image.src ELSE i.last.src
\* an implicit context that falls back to the first shape (variant for C6)
C6_FirstShape(i) == 1
\* image?.shapeId ?? lastAssistantImageInChat?.shapeId
ShapeIdForEditing(i) ==
  IF i.image # NoImage THEN i.image.shapeId ELSE i.last.shapeId

\* a catch block that takes every error for a transient one (variant for C4)
C4_EveryErrorIsTransient(msg) == TRUE
\* /INTERNAL|code":500|status":\s*500/i.test(msg)
IsTransient(msg) == msg \in {"INTERNAL", "code500", "status500"}

\* a submission that always replaces the implicit reference (variant for C14)
C14_AlwaysReplace(image, last) == image
\* if (image) setLastAssistantImageInChat(image)
NextLastAssistantImage(image, last) == IF image # NoImage THEN image ELSE last

\* a prompt bar that submits whatever the generating flag says (variant for
\* C28)
C28_IgnoresGenerating(prompt, image, generating) ==
  prompt = "" /\ image = NoImage
\* if ((!prompt && !assistantImage) || isGenerating) return;
HandleRunReturns(prompt, image, generating) ==
  (prompt = "" /\ image = NoImage) \/ generating

\* handleRun up to `await onAssistantSubmit`, and handleAssistantSubmit up to
\* its first await (chat.sendMessage on the current session)
Submit ==
  /\ pc = "idle"
  /\ msgCount < MaxMessages
  /\ \E prompt \in {"", "p"} :
       /\ ~HandleRunReturns(prompt, assistantImage, isGenerating)
       /\ LET image == assistantImage
              ss == IF chatSession = 0
                      THEN Append(sessions, NewSession(GEMINI_MODEL_NAME))
                      ELSE sessions
              chat == IF chatSession = 0 THEN Len(ss) ELSE chatSession
              userParts == UserParts(prompt, image)
          IN /\ lastAssistantImageInChat' =
                  NextLastAssistantImage(image, lastAssistantImageInChat)
             /\ chatSession' = chat
             /\ chatHistory' =
                  Append(chatHistory, [role |-> "user", parts |-> userParts])
             /\ sessions' = SendMessage(ss, chat, UserMessage(msgCount + 1, FALSE))
             /\ inv' = [image |-> image, last |-> lastAssistantImageInChat,
                        chat |-> chat, userParts |-> userParts,
                        iter |-> 0,
                        sent |-> SentUser(userParts), firstError |-> "",
                        transcript |-> chatHistory]
  /\ isGenerating' = TRUE
  /\ msgCount' = msgCount + 1
  /\ outcome' = Running
  /\ outstanding' = outstanding + 1
  /\ pc' = "sendFirst"
  /\ UNCHANGED <<assistantImage, editingImage, toasts, envVars, canvasVars,
                 toolCalls, tool, executing, userVars>>

\* the answers a session may give at this point of the loop
Responses == IF toolCalls < MaxToolCalls
               THEN FinalResponses \cup CallResponses
               ELSE FinalResponses

\* the rejected promise leaves handleAssistantSubmit and handleRun: nothing
\* after `await onAssistantSubmit` runs
Throws(msg) ==
  /\ pc' = "idle"
  /\ outcome' = Threw(msg)
  /\ inv' = NoInv
  /\ toasts' = <<>>
  /\ UNCHANGED <<chatHistory, chatSession, assistantImage,
                 lastAssistantImageInChat, editingImage, isGenerating>>

\* catch (err): transient class, switch to the Flash model and resend
FirstReplyTransient ==
  /\ pc = "sendFirst"
  /\ \E msg \in SendErrors :
       /\ IsTransient(msg)
       /\ toasts' = Append(toasts, "Assistente (Pro) indisponivel")
       /\ LET ss == Append(sessions, NewSession(FALLBACK_MODEL_NAME))
              fallbackChat == Len(ss)
          IN /\ chatSession' = fallbackChat
             /\ sessions' = SendMessage(ss, fallbackChat,
                                        UserMessage(msgCount, TRUE))
       /\ inv' = [inv EXCEPT !.sent = SentUser(inv.userParts),
                             !.firstError = msg]
  /\ pc' = "sendFallback"
  /\ UNCHANGED <<chatHistory, assistantImage, lastAssistantImageInChat,
                 editingImage, isGenerating, envVars, canvasVars,
                 outcome, msgCount, toolCalls, tool, executing, outstanding, userVars>>

\* catch (err): any other error is rethrown
FirstReplyFatal ==
  /\ pc = "sendFirst"
  /\ \E msg \in SendErrors :
       /\ ~IsTransient(msg)
       /\ Throws(msg)
  /\ outstanding' = outstanding - 1
  /\ UNCHANGED <<envVars, sessions, canvasVars, msgCount, toolCalls, tool,
                 executing, userVars>>

FallbackReplyFails ==
  /\ pc = "sendFallback"
  /\ \E msg \in LaterErrors : Throws(msg)
  /\ outstanding' = outstanding - 1
  /\ UNCHANGED <<envVars, sessions, canvasVars, msgCount, toolCalls, tool,
                 executing, userVars>>

\* -------------------------------------------------------- the tool loop
\* A reply to the outstanding request resumes handleAssistantSubmit, which then
\* runs without interruption to its next await: the while condition, the
\* synchronous part of the tool and, when the tool does not suspend, the
\* sendMessage of the function-response.
Replied == pc \in {"sendFirst", "sendFallback", "awaitModel"}

\* a while condition that never sees a function-call (variant for C18)
C18_NeverFunctionCall(r) == FALSE
\* response.candidates[0].content.parts[0].functionCall
FirstPartIsFunctionCall(r) == r[1].kind = "functionCall"
CallIs(r, names) ==
  /\ Replied
  /\ Len(r) > 0
  /\ FirstPartIsFunctionCall(r)
  /\ r[1].name \in names

\* /did not return images/i.test(msg)
IsNoImagesError(msg) == msg = "Gemini did not return images"
\* a catch block that reports the failure as an output (variant for C2)
C2_CatchAsOutput(msg) == Ok(msg)
\* the catch block of the loop body
CatchResult(msg) ==
  IF IsNoImagesError(msg) THEN Err("O modelo nao retornou imagem.") ELSE Err(msg)
\* a catch block that raises the notice for every failure (variant for C24)
C24_AlwaysNotify(msg) == Append(toasts, "Nenhuma imagem gerada")
CatchToasts(msg) ==
  IF IsNoImagesError(msg) THEN Append(toasts, "Nenhuma imagem gerada") ELSE toasts

\* chat.sendMessage({message: [{functionResponse: {name, response}}]}) on `chat`
\* try { ... } catch (e) { result = {error: ...} }
TryCatch(r) == IF r.status = "thrown" THEN CatchResult(r.text) ELSE r
Raised(r) == IF r.status = "thrown" THEN r.text ELSE ""

\* (g, v and edits: the generateImages, generateVideo and editImage calls the
\* tool made)
RespondAfter(fn, r, g, v, edits) ==
  /\ sessions' = SendMessage(sessions, inv.chat, FunctionResponseMessage(msgCount))
  /\ inv' = [inv EXCEPT !.iter = @ + 1,
                        !.sent = SentFunctionResponse(fn, TryCatch(r), Raised(r),
                                                      g, v, edits)]
  /\ toolCalls' = toolCalls + 1
  /\ pc' = "awaitModel"
RespondWith(fn, r, g, v) == RespondAfter(fn, r, g, v, 0)
Respond(fn, r) == RespondWith(fn, r, NoGen, NoVid)

\* a loop body that does not wait for the helper (variant for C1)
C1_NotAwaited(t) == TRUE
\* `await` of a tool helper: the loop body resumes when the helper has settled
Awaited(t) == t.status = "done"

\* the tool ran to its result without suspending
Completed(fn, r) ==
  /\ tool' = NoTool
  /\ executing' = executing
  /\ Respond(fn, r)
  /\ outstanding' = outstanding
\* the tool suspended at an await of one of its helpers
Suspended(fn, t) ==
  /\ tool' = [t EXCEPT !.status = "running", !.fn = fn]
  /\ executing' = executing + 1
  /\ IF Awaited(tool')
       THEN /\ Respond(fn, tool'.result)
            /\ outstanding' = outstanding
       ELSE /\ pc' = "awaitTool"
            /\ outstanding' = outstanding - 1
            /\ UNCHANGED <<sessions, inv, toolCalls>>
\* a loop body that answers every call as a `plan` call (variant for C22)
C22_AnswerAsPlan(r, g, v) ==
  /\ tool' = NoTool
  /\ executing' = executing - 1
  /\ RespondWith(FunctionCallPart("plan", NoArgs), r, g, v)
  /\ outstanding' = outstanding + 1
\* a suspended tool reached its result and the loop body resumes
FinishedWith(r, g, v) ==
  /\ tool' = NoTool
  /\ executing' = executing - 1
  /\ RespondWith(tool.fn, r, g, v)
  /\ outstanding' = outstanding + 1
\* the same after one editImage call
FinishedEdited(r) ==
  /\ tool' = NoTool
  /\ executing' = executing - 1
  /\ RespondAfter(tool.fn, r, NoGen, NoVid, 1)
  /\ outstanding' = outstanding + 1
\* a helper that asks the image model on its way (variant for C12)
C12_FinishedAfterModelCall(r) == FinishedEdited(r)
\* a suspended tool that called no model reached its result
Finished(r) == FinishedWith(r, NoGen, NoVid)

\* an editor that always gets the previous chat image as overlay (variant for C16)
C16_AlwaysOverlay(i, sid) == i.last.src
\* lastAssistantImageInChat && lastAssistantImageInChat.shapeId !== shapeIdForEditing
\*   ? lastAssistantImageInChat.src : undefined
OverlaySrc(i, sid) ==
  IF i.last # NoImage /\ i.last.shapeId # sid THEN i.last.src ELSE NoSrc

StartEditImage ==
  \E r \in Responses :
    /\ CallIs(r, {"editImage"})
    /\ LET sid == ShapeIdForEditing(inv)
           overlaySrc == OverlaySrc(inv, sid)
       IN IF sid = 0
            THEN /\ Completed(r[1], Err("No image selected for editing."))
                 /\ UNCHANGED editingImage
          ELSE IF ~HasShape(shapes, sid)
            THEN /\ Completed(r[1], Err("Selected shape is not an image."))
                 /\ UNCHANGED editingImage
          ELSE IF shapes[sid].assetId \notin DOMAIN assets
            THEN /\ Completed(r[1], Err("Could not locate image asset or bounds."))
                 /\ UNCHANGED editingImage
          ELSE /\ editingImage' =
                    [assetId |-> shapes[sid].assetId,
                     src |-> assets[shapes[sid].assetId].src,
                     initialPrompt |-> TRUE, overlaySrc |-> overlaySrc]
               /\ Completed(r[1], Ok("Opened mask editor."))
    /\ UNCHANGED <<chatHistory, chatSession, assistantImage,
                   lastAssistantImageInChat, isGenerating, toasts, envVars,
                   canvasVars, outcome, msgCount, userVars>>

\* (steps || []).join(' -> ')
PlanJoinThrows(steps) == steps \in {"string", "number"}

StartPlan ==
  \E r \in Responses :
    /\ CallIs(r, {"plan"})
    /\ IF PlanJoinThrows(r[1].args.steps)
         THEN /\ Completed(r[1], Thrown("(steps || []).join is not a function"))
              /\ toasts' = CatchToasts("(steps || []).join is not a function")
         ELSE /\ Completed(r[1], Ok("Plan acknowledged"))
              /\ UNCHANGED toasts
    /\ UNCHANGED <<chatHistory, chatSession, assistantImage,
                   lastAssistantImageInChat, editingImage, isGenerating,
                   envVars, canvasVars, outcome, msgCount, userVars>>

KnownTools ==
  {"editImage", "generateImage", "generateVideo", "removeBackground",
   "applyOverlay", "composeAI", "upscaleImage", "plan"}

\* throw new Error(`Unknown tool ${fn.name}`), caught by the loop body
StartUnknownTool ==
  \E r \in Responses :
    /\ Replied
    /\ Len(r) > 0
    /\ FirstPartIsFunctionCall(r)
    /\ r[1].name \notin KnownTools
    /\ Completed(r[1], Thrown("Unknown tool"))
    /\ toasts' = CatchToasts("Unknown tool")
    /\ UNCHANGED <<chatHistory, chatSession, assistantImage,
                   lastAssistantImageInChat, editingImage, isGenerating,
                   envVars, canvasVars, outcome, msgCount, userVars>>

\* ---------------------------------------------------------- generateImages
\* what one ai.models.generateContent attempt may do
AttemptOutcomes == {"image", "empty", "throw"}
\* the answers to the attempts of one call, in the order they are made (an
\* answer that no attempt can ask for is written "empty")
AttemptSeqs(n) ==
  {outs \in [1..(2 * n) -> AttemptOutcomes] :
     /\ \A j \in 1..(2 * n) : \A k \in (j + 1)..(2 * n) :
          outs[j] = "throw" => outs[k] = "empty"
     /\ (\E j \in 1..n : outs[j] = "image") =>
          \A k \in (n + 1)..(2 * n) : outs[k] = "empty"}

\* generateImages(prompt, imageBlob, numberOfImages), attempt by attempt: the
\* first pass of n attempts, then, when nothing came back, one retry pass of n
\* attempts with the augmented prompt
RECURSIVE GenRun(_, _)
GenRun(g, outs) ==
  IF g.status # "running" THEN g
  ELSE IF g.i < g.n
    THEN LET o == outs[g.calls1 + g.calls2 + 1]
             got == IF o = "image" THEN 1 ELSE 0
             counted == IF g.pass = 1
                          THEN [g EXCEPT !.calls1 = @ + 1, !.images1 = @ + got]
                          ELSE [g EXCEPT !.calls2 = @ + 1]
         IN IF o = "throw"
              THEN [counted EXCEPT !.status = "threw", !.error = "network error"]
              ELSE GenRun([counted EXCEPT
                             !.i = @ + 1,
                             !.images = @ + got], outs)
  ELSE IF g.pass = 1 /\ g.images = 0
    THEN GenRun([g EXCEPT !.pass = 2, !.i = 0], outs)
  ELSE IF g.images = 0
    THEN [g EXCEPT !.status = "threw", !.error = "Gemini did not return images"]
  ELSE [g EXCEPT !.status = "returned"]

\* a generateImages without the first pass (variant for C7)
C7_RetryPassOnly(hasRef, n, outs) ==
  GenRun([NoGen EXCEPT !.status = "running", !.hasRef = hasRef, !.n = n,
                       !.pass = 2], outs)
GenerateImages(hasRef, n, outs) ==
  GenRun([NoGen EXCEPT !.status = "running", !.hasRef = hasRef, !.n = n,
                       !.pass = 1], outs)

\* ------------------------------------------------- generateImage (the tool)
\* (numberOfImages as number) ?? 1
NumberOfImages(args) == IF args.numberOfImages = 0 THEN 1 ELSE args.numberOfImages

\* ids of the j-th inserted image (asset and shape) and of its connector
ImageIdAt(base, j) == base + 2 * (j - 1)
ArrowIdAt(base, j) == base + 2 * (j - 1) + 1

\* genImageClick after generateImages returned k images: one asset and one
\* image shape per image, one connector from the source shape
InsertedShapes(base, k, source) ==
  [id \in {ImageIdAt(base, j) : j \in 1..k} \cup {ArrowIdAt(base, j) : j \in 1..k} |->
     IF (id - base) % 2 = 0 THEN ImageShape(id) ELSE ArrowShape(source, id - 1)]
InsertedAssets(base, k) ==
  [id \in {ImageIdAt(base, j) : j \in 1..k} |->
     ImageAsset([scheme |-> "data", content |-> "generated"], "sample")]

\* the text shape, editor.select(textShapeId), genImageClick up to the await of
\* generateImages (or its early return on an empty prompt)
StartGenerateImage ==
  \E r \in Responses :
    /\ CallIs(r, {"generateImage"})
    /\ LET textShapeId == nextId
           placeholderId == nextId + 1
           withText == CreateShape(shapes, textShapeId, TextShape)
       IN IF r[1].args.prompt = ""
            THEN \* genImageClick returns at once; the text shape is deleted
                 /\ shapes' = DeleteShapes(withText, {textShapeId})
                 /\ selection' = {}
                 /\ nextId' = nextId + 1
                 /\ Completed(r[1], OkCount("Successfully generated image(s).",
                                            NumberOfImages(r[1].args)))
            ELSE /\ shapes' = CreateShape(withText, placeholderId, PlaceholderShape)
                 /\ selection' = {placeholderId}
                 /\ nextId' = nextId + 2
                 /\ Suspended(r[1], [NoTool EXCEPT !.pc = "genImageClick",
                                       !.textShapeId = textShapeId,
                                       !.placeholderId = placeholderId,
                                       !.baseId = SelectedImage(withText, {textShapeId}),
                                       !.sources = SelectedTexts(withText, {textShapeId}),
                                       !.n = NumberOfImages(r[1].args)])
    /\ UNCHANGED <<uiVars, envVars, assets, outcome, msgCount, userVars>>

\* genImageClick resumes after generateImages, then the tool body resumes
GenImageClickResume ==
  /\ tool.status = "running"
  /\ tool.pc = "genImageClick"
  /\ \E outs \in AttemptSeqs(tool.n) :
       LET g == GenerateImages(tool.baseId # 0, tool.n, outs)
       IN IF g.status = "threw"
            THEN \* catch: the placeholder goes, the error is rethrown to the loop
                 /\ shapes' = DeleteShapes(shapes, {tool.placeholderId})
                 /\ selection' = {}
                 /\ UNCHANGED <<assets, nextId>>
                 /\ toasts' = CatchToasts(g.error)
                 /\ FinishedWith(Thrown(g.error), g, NoVid)
          ELSE IF ~HasShape(shapes, tool.placeholderId)
            THEN \* getSelectionPageBounds() is undefined: bounds.left throws
                 /\ selection' = {}
                 /\ UNCHANGED <<shapes, assets, nextId>>
                 /\ toasts' = CatchToasts("Cannot read properties of undefined (reading 'left')")
                 /\ FinishedWith(Thrown("Cannot read properties of undefined (reading 'left')"),
                                 g, NoVid)
          ELSE /\ shapes' = DeleteShapes(
                      DeleteShapes(shapes, {tool.placeholderId})
                        @@ InsertedShapes(nextId, g.images, tool.textShapeId),
                      {tool.textShapeId})
               /\ assets' = assets @@ InsertedAssets(nextId, g.images)
               /\ selection' = {ImageIdAt(nextId, j) : j \in 1..g.images}
               /\ nextId' = nextId + 2 * g.images
               /\ UNCHANGED toasts
               /\ FinishedWith(OkCount("Successfully generated image(s).", tool.n),
                               g, NoVid)
  /\ UNCHANGED <<chatHistory, chatSession, assistantImage,
                 lastAssistantImageInChat, editingImage, isGenerating, envVars,
                 outcome, msgCount, userVars>>

\* ------------------------------------- removeBackground / upscaleImage
\* the tool body and runEditImage up to the await of generateImages
StartRunEditImage ==
  \E r \in Responses :
    /\ CallIs(r, {"removeBackground", "upscaleImage"})
    /\ LET sid == ShapeIdForEditing(inv)
       IN IF sid = 0
            THEN /\ Completed(r[1], Err("Select an image."))
                 /\ UNCHANGED <<toasts, canvasVars>>
          ELSE IF ~HasShape(shapes, sid) \/ shapes[sid].assetId = 0
            THEN /\ Completed(r[1], Thrown("Target shape is not a valid image."))
                 /\ toasts' = CatchToasts("Target shape is not a valid image.")
                 /\ UNCHANGED canvasVars
          ELSE /\ shapes' = CreateShape(shapes, nextId, PlaceholderShape)
               /\ selection' = {nextId}
               /\ nextId' = nextId + 1
               /\ Suspended(r[1], [NoTool EXCEPT !.pc = "runEditImage",
                                     !.placeholderId = nextId, !.baseId = sid,
                                     !.n = 1])
               /\ UNCHANGED <<toasts, assets>>
    /\ UNCHANGED <<chatHistory, chatSession, assistantImage,
                   lastAssistantImageInChat, editingImage, isGenerating,
                   envVars, outcome, msgCount, userVars>>

\* runEditImage resumes after generateImages, then the tool body resumes
RunEditImageResume ==
  /\ tool.status = "running"
  /\ tool.pc = "runEditImage"
  /\ \E outs \in AttemptSeqs(1) :
       LET g == GenerateImages(TRUE, 1, outs)
           assetId == tool.baseId
           done == IF tool.fn.name = "removeBackground"
                     THEN Ok("Background removed.") ELSE Ok("Image upscaled.")
       IN IF g.status = "threw"
            THEN \* not caught in runEditImage: the placeholder stays
                 /\ toasts' = CatchToasts(g.error)
                 /\ FinishedWith(Thrown(g.error), g, NoVid)
                 /\ UNCHANGED canvasVars
          ELSE IF assetId \notin DOMAIN assets
            THEN /\ shapes' = DeleteShapes(shapes, {tool.placeholderId})
                 /\ selection' = selection \ {tool.placeholderId}
                 /\ toasts' = CatchToasts("Could not find existing asset to update.")
                 /\ FinishedWith(Thrown("Could not find existing asset to update."),
                                 g, NoVid)
                 /\ UNCHANGED <<assets, nextId>>
          ELSE IF assets[assetId].type # "image"
            THEN /\ shapes' = DeleteShapes(shapes, {tool.placeholderId})
                 /\ selection' = selection \ {tool.placeholderId}
                 /\ toasts' = CatchToasts("The asset being updated is not an image.")
                 /\ FinishedWith(Thrown("The asset being updated is not an image."),
                                 g, NoVid)
                 /\ UNCHANGED <<assets, nextId>>
          ELSE /\ assets' = [assets EXCEPT ![assetId] =
                               ImageAsset([scheme |-> "data", content |-> "edited"],
                                          assets[assetId].name)]
               /\ shapes' = DeleteShapes(shapes, {tool.placeholderId})
               /\ selection' = Select(shapes', {tool.baseId})
               /\ UNCHANGED <<toasts, nextId>>
               /\ FinishedWith(done, g, NoVid)
  /\ UNCHANGED <<chatHistory, chatSession, assistantImage,
                 lastAssistantImageInChat, editingImage, isGenerating, envVars,
                 outcome, msgCount, userVars>>

\* ----------------------------------------------------------- generateVideo
\* what the polls of the Veo operation answer until it is done or fails
PollSeqs ==
  {s \in UNION {[1..k -> {"pending", "done", "throw"}] : k \in 1..MaxPolls} :
     /\ s[Len(s)] # "pending"
     /\ \A j \in 1..(Len(s) - 1) : s[j] = "pending"}
\* what the services answer during one generateVideo call
\* (an answer that the call cannot ask for is written with its first value)
VideoEnvs ==
  {e \in [submit : {"throw", "pending", "done"},
          polls : PollSeqs,
          response : {"none", "filtered", "noVideos", "videos"},
          count : 0..1,
          fetchOk : BOOLEAN,
          falUrls : 0..1,
          falFetchOk : BOOLEAN] :
     LET first == CHOOSE s \in PollSeqs : \A t \in PollSeqs : Len(s) <= Len(t)
         op == IF e.submit = "pending" THEN e.polls[Len(e.polls)] ELSE e.submit
     IN /\ e.submit # "pending" => e.polls = first
        /\ op = "throw" => e.response = "none"
        /\ e.response # "videos" => e.count = 0 /\ e.fetchOk
        /\ ~e.fetchOk => e.count = 0
        /\ e.falUrls = 0 => e.falFetchOk}

\* while (!operation.done) { ...; operation = await getVideosOperation(...) }
RECURSIVE PollOperation(_, _)
PollOperation(polls, j) ==
  IF j > Len(polls) \/ polls[j] = "throw" THEN [status |-> "threw", polls |-> j]
  ELSE IF polls[j] = "done" THEN [status |-> "done", polls |-> j]
  ELSE PollOperation(polls, j + 1)

\* the try block of generateVideo: the Veo request, the polling, the safety
\* filter and the download of the generated videos
VeoPrimary(e) ==
  LET op == IF e.submit = "throw" THEN [status |-> "threw", polls |-> 0]
            ELSE IF e.submit = "done" THEN [status |-> "done", polls |-> 0]
            ELSE PollOperation(e.polls, 1)
      base == [outcome |-> "threw", polls |-> op.polls, filtered |-> FALSE,
               videos |-> 0]
  IN IF op.status = "threw" THEN base
     ELSE IF e.response = "none" THEN [base EXCEPT !.outcome = "fellThrough"]
     ELSE IF e.response = "filtered" THEN [base EXCEPT !.filtered = TRUE]
     ELSE IF e.response = "noVideos" THEN [base EXCEPT !.outcome = "fellThrough"]
     ELSE IF e.fetchOk
       THEN [base EXCEPT !.outcome = "returned", !.videos = e.count]
     ELSE base

\* a gate that ignores the video switch of the fallback panel (variant for C23)
C23_KeyOnly(key, toggle) == key
\* process.env.FAL_KEY && falFallbackConfig.video
FalVideoEnabled(key, toggle) == key /\ toggle

\* generateVideo(imageBlob, prompt): the catch of the try block only warns;
\* whatever did not return from the try block goes on to the FAL gate
GenerateVideo(hasImage, e, key, toggle) ==
  LET p == VeoPrimary(e)
      v == [NoVid EXCEPT !.status = "returned", !.hasImage = hasImage,
                         !.primary = p.outcome, !.polls = p.polls,
                         !.filtered = p.filtered]
  IN IF p.outcome = "returned" THEN [v EXCEPT !.videos = p.videos]
     ELSE IF ~FalVideoEnabled(key, toggle) THEN v
     ELSE [v EXCEPT !.notified = TRUE, !.falCalls = 1,
                    !.videos = IF e.falFetchOk THEN e.falUrls ELSE 0]

\* -------------------------------------------------- generateVideo (the tool)

\* generateNewVideo and genVideoClick up to the await of generateVideo (or the
\* early return of genVideoClick when nothing usable is selected)
StartGenerateVideo ==
  \E r \in Responses :
    /\ CallIs(r, {"generateVideo"})
    /\ LET imgSrc == ImageForToolContext(inv)
           hasImg == imgSrc # NoSrc
           hasText == r[1].args.prompt # ""
           imgShapeId == IF hasImg THEN nextId + 1 ELSE 0
           n1 == IF hasImg THEN nextId + 2 ELSE nextId
           textShapeId == IF hasText THEN n1 ELSE 0
           n2 == IF hasText THEN n1 + 1 ELSE n1
           withImg == IF hasImg
                        THEN CreateShape(shapes, imgShapeId, ImageShape(nextId))
                        ELSE shapes
           withText == IF hasText
                         THEN CreateShape(withImg, textShapeId, TextShape)
                         ELSE withImg
           idsToSelect == {imgShapeId, textShapeId} \ {0}
           selected == IF idsToSelect # {} THEN idsToSelect
                                           ELSE Select(shapes, selection)
           texts == {x \in selected : withText[x].type = "text"}
           images == {x \in selected : withText[x].type = "image"}
           image == IF images = {} THEN 0 ELSE Smallest(images)
           sourceShapesId == texts \cup ({image} \ {0})
       IN /\ assets' = IF hasImg
                         THEN assets @@ (nextId :> ImageAsset(imgSrc, "uploaded_image"))
                         ELSE assets
          /\ IF sourceShapesId = {}
               THEN \* genVideoClick returns at once, no prompt card to wrap
                    /\ shapes' = withText
                    /\ selection' = selected
                    /\ nextId' = n2
                    /\ Completed(r[1], Ok("Successfully generated video."))
               ELSE /\ shapes' = CreateShape(withText, n2, PlaceholderShape)
                    /\ selection' = {n2}
                    /\ nextId' = n2 + 1
                    /\ Suspended(r[1], [NoTool EXCEPT !.pc = "genVideoClick",
                                          !.textShapeId = textShapeId,
                                          !.baseId = image,
                                          !.placeholderId = n2,
                                          !.sources = sourceShapesId, !.n = 1])
    /\ UNCHANGED <<uiVars, envVars, outcome, msgCount, userVars>>

\* genVideoClick resumes after generateVideo, generateNewVideo wraps the
\* prompt text in a card, and the tool body resumes
GenVideoClickResume ==
  /\ tool.status = "running"
  /\ tool.pc = "genVideoClick"
  /\ \E e \in VideoEnvs :
       LET v == GenerateVideo(tool.baseId # 0, e, falKey, falVideo)
           lastId == nextId + 1
           src == tool.sources
           n1 == IF v.videos > 0 THEN lastId + Cardinality(src) + 1 ELSE nextId
           inserted ==
             IF v.videos > 0
               THEN (lastId :> VideoShape(nextId)) @@
                    [id \in (lastId + 1)..(lastId + Cardinality(src)) |->
                       ArrowShape(CHOOSE x \in src : Rank(x, src) = id - lastId - 1,
                                  lastId)]
               ELSE <<>>
           afterClick == DeleteShapes(shapes, {tool.placeholderId}) @@ inserted
           wrap == tool.textShapeId # 0 /\ HasShape(afterClick, tool.textShapeId)
       IN /\ toasts' = IF v.notified
                         THEN Append(toasts, "Usando fallback FAL: video")
                         ELSE toasts
          /\ assets' = IF v.videos > 0 THEN assets @@ (nextId :> VideoAsset)
                                       ELSE assets
          /\ shapes' = IF wrap
                         THEN afterClick @@ (n1 :> GeoShape) @@ (n1 + 1 :> GroupShape)
                         ELSE afterClick
          /\ selection' = IF wrap THEN {n1 + 1} ELSE Select(afterClick, {lastId})
          /\ nextId' = IF wrap THEN n1 + 2 ELSE n1
          /\ FinishedWith(Ok("Successfully generated video."), NoGen, v)
  /\ UNCHANGED <<chatHistory, chatSession, assistantImage,
                 lastAssistantImageInChat, editingImage, isGenerating, envVars,
                 outcome, msgCount, userVars>>

\* ------------------------------------------------------------ applyOverlay
\* if (!baseId) baseId = shapeIdForEditing
OverlayBaseId(args, i) ==
  IF args.baseShapeId # 0 THEN args.baseShapeId ELSE ShapeIdForEditing(i)
\* if (!overlayId && lastAssistantImageInChat) overlayId = its shapeId
OverlayOverlayId(args, i) ==
  IF args.overlayShapeId # 0 THEN args.overlayShapeId ELSE i.last.shapeId

\* the tool body and bakeOverlayBetweenShapes up to its first await
StartApplyOverlay ==
  \E r \in Responses :
    /\ CallIs(r, {"applyOverlay"})
    /\ LET baseId == OverlayBaseId(r[1].args, inv)
           overlayId == OverlayOverlayId(r[1].args, inv)
       IN IF baseId = 0 \/ overlayId = 0
            THEN Completed(r[1], Err("Provide base/overlay or select base and use an assistant image as overlay."))
          ELSE IF ~HasShape(shapes, baseId) \/ ~HasShape(shapes, overlayId)
            THEN Completed(r[1], Thrown("Both shapes must be images."))
          ELSE Suspended(r[1], [NoTool EXCEPT !.pc = "bakeOverlay",
                                  !.baseId = baseId, !.overlayId = overlayId])
    /\ UNCHANGED <<uiVars, envVars, canvasVars, outcome, msgCount, userVars>>

\* bakeOverlayBetweenShapes after the exports: the 2D context and the blob of
\* the canvas may be missing; then the base asset is replaced, the overlay
\* shape deleted and the base selected
BakeOverlayResume ==
  /\ tool.status = "running"
  /\ tool.pc = "bakeOverlay"
  /\ \E drawn \in {"ok", "noContext", "noBlob"} :
       LET assetId == shapes[tool.baseId].assetId
       IN IF drawn = "noContext"
            THEN /\ Finished(Thrown("Could not get 2D context."))
                 /\ UNCHANGED canvasVars
          ELSE IF drawn = "noBlob"
            THEN /\ Finished(Thrown("Failed to bake overlay"))
                 /\ UNCHANGED canvasVars
          ELSE IF assetId \notin DOMAIN assets \/ assets[assetId].type # "image"
            THEN /\ Finished(Thrown("Base asset not found or not an image."))
                 /\ UNCHANGED canvasVars
          ELSE /\ assets' = [assets EXCEPT ![assetId] =
                               ImageAsset([scheme |-> "data", content |-> "baked"],
                                          assets[assetId].name)]
               /\ shapes' = DeleteShapes(shapes, {tool.overlayId})
               /\ selection' = Select(shapes', {tool.baseId})
               /\ UNCHANGED nextId
               /\ Finished(Ok("Overlay applied (flattened)."))
  /\ UNCHANGED <<uiVars, envVars, outcome, msgCount, userVars>>

\* --------------------------------------------------------------- composeAI
\* baseShapeId || shapeIdForEditing
ComposeBaseId(args, i) ==
  IF args.baseShapeId # 0 THEN args.baseShapeId ELSE ShapeIdForEditing(i)
\* overlayShapeId || lastAssistantImageInChat?.shapeId
ComposeOverlayId(args, i) ==
  IF args.overlayShapeId # 0 THEN args.overlayShapeId ELSE i.last.shapeId

\* editImage(imageBlob, maskBlob, prompt, overlayBlob): the first inline image
\* of the answer, or an error when the answer holds none
EditImageError(o) ==
  IF o = "empty" THEN "Gemini did not return an image for editImage"
  ELSE IF o = "throw" THEN "network error"
  ELSE ""

\* the tool body up to its first await
StartComposeAI ==
  \E r \in Responses :
    /\ CallIs(r, {"composeAI"})
    /\ LET baseId == ComposeBaseId(r[1].args, inv)
           overlayId == ComposeOverlayId(r[1].args, inv)
       IN IF baseId = 0 \/ overlayId = 0
            THEN Completed(r[1], Err("Provide base/overlay or select base and use an assistant image as overlay."))
          ELSE IF ~HasShape(shapes, baseId) \/ ~HasShape(shapes, overlayId)
            THEN Completed(r[1], Err("Either base or overlay is not an image."))
          ELSE Suspended(r[1], [NoTool EXCEPT !.pc = "composeAI",
                                  !.baseId = baseId, !.overlayId = overlayId])
    /\ UNCHANGED <<uiVars, envVars, canvasVars, outcome, msgCount, userVars>>

\* the mask, editImage and handleSaveEditedImage (which reports its own
\* failures with a toast and does not rethrow)
ComposeAIResume ==
  /\ tool.status = "running"
  /\ tool.pc = "composeAI"
  /\ \E o \in {"noMask", "image", "empty", "throw"} :
       LET assetId == shapes[tool.baseId].assetId
       IN IF o = "noMask"
            THEN /\ Finished(Thrown("Could not create mask for composeAI"))
                 /\ toasts' = CatchToasts("Could not create mask for composeAI")
                 /\ UNCHANGED <<assets, editingImage>>
          ELSE IF o # "image"
            THEN /\ FinishedEdited(Thrown(EditImageError(o)))
                 /\ toasts' = CatchToasts(EditImageError(o))
                 /\ UNCHANGED <<assets, editingImage>>
          ELSE IF assetId \notin DOMAIN assets \/ assets[assetId].type # "image"
            THEN /\ editingImage' = NoEditing
                 /\ toasts' = Append(toasts, "Failed to update image")
                 /\ UNCHANGED assets
                 /\ FinishedEdited(Ok("Overlay composed with AI."))
          ELSE /\ assets' = [assets EXCEPT ![assetId] =
                               ImageAsset([scheme |-> "data", content |-> "composed"],
                                          assets[assetId].name)]
               /\ editingImage' = NoEditing
               /\ UNCHANGED toasts
               /\ FinishedEdited(Ok("Overlay composed with AI."))
  /\ UNCHANGED <<chatHistory, chatSession, assistantImage,
                 lastAssistantImageInChat, isGenerating, envVars, shapes,
                 selection, nextId, outcome, msgCount, userVars>>

\* a failed function-response request is not caught
LoopReplyFails ==
  /\ pc = "awaitModel"
  /\ \E msg \in LaterErrors : Throws(msg)
  /\ outstanding' = outstanding - 1
  /\ UNCHANGED <<envVars, sessions, canvasVars, msgCount, toolCalls,
                 tool, executing, userVars>>

\* a response without candidates/parts: the while condition throws a TypeError
LoopThrows ==
  \E r \in Responses :
    /\ Replied
    /\ Len(r) = 0
    /\ Throws("Cannot read properties of undefined (reading '0')")
    /\ outstanding' = outstanding - 1
    /\ UNCHANGED <<envVars, sessions, canvasVars, msgCount, toolCalls,
                   tool, executing, userVars>>

\* loop exit: append the response, return; handleRun resets the prompt bar
FinalAppend ==
  \E r \in Responses :
    /\ Replied
    /\ Len(r) > 0
    /\ ~FirstPartIsFunctionCall(r)
    /\ chatHistory' = Append(chatHistory, [role |-> "model", parts |-> r])
    /\ isGenerating' = FALSE
    /\ assistantImage' = NoImage
    /\ pc' = "idle"
    /\ outcome' = Returned
    /\ inv' = NoInv
    /\ toasts' = <<>>
    /\ outstanding' = outstanding - 1
    /\ UNCHANGED <<chatSession, lastAssistantImageInChat, editingImage,
                   envVars, sessions, canvasVars, msgCount, toolCalls, tool,
                   executing, userVars>>

\* ------------------------------------------- the contextual toolbar
\* the user writes a text with tldraw's text tool and clicks away
UserInsertText ==
  /\ UserMayAct
  /\ Cardinality({x \in DOMAIN shapes : shapes[x].type = "text"}) < MaxUserTexts
  /\ shapes' = CreateShape(shapes, nextId, TextShape)
  /\ selection' = {}
  /\ nextId' = nextId + 1
  /\ UNCHANGED <<uiVars, envVars, assets, sessions, pc, inv, outcome, msgCount,
                 toolCalls, tool, executing, outstanding, userVars>>

\* 'Generate video' on a selected image while an assistant tool is in flight:
\* genVideoClick up to the await of generateVideo
ToolbarGenVideo ==
  /\ tool.status = "running"
  /\ flow.status # "running"
  /\ flow.started < MaxToolbarFlows
  /\ \E s \in DOMAIN shapes :
       /\ UserImage(s)
       /\ flow' = [status |-> "running", placeholderId |-> nextId,
                   sources |-> {s}, started |-> flow.started + 1]
  /\ shapes' = CreateShape(shapes, nextId, PlaceholderShape)
  /\ selection' = {nextId}
  /\ nextId' = nextId + 1
  /\ UNCHANGED <<uiVars, envVars, assets, sessions, pc, inv, outcome, msgCount,
                 toolCalls, tool, executing, outstanding, userImages, userDeletes>>

\* genVideoClick of the toolbar resumes after generateVideo
ToolbarGenVideoResume ==
  /\ flow.status = "running"
  /\ \E v \in {GenerateVideo(TRUE, e, falKey, falVideo) : e \in VideoEnvs} :
       LET lastId == nextId + 1
           src == flow.sources
           inserted ==
             IF v.videos > 0
               THEN (lastId :> VideoShape(nextId)) @@
                    [id \in (lastId + 1)..(lastId + Cardinality(src)) |->
                       ArrowShape(CHOOSE x \in src : Rank(x, src) = id - lastId - 1,
                                  lastId)]
               ELSE <<>>
       IN /\ toasts' = IF v.notified
                         THEN Append(toasts, "Usando fallback FAL: video")
                         ELSE toasts
          /\ IF ~HasShape(shapes, flow.placeholderId)
               THEN \* getSelectionPageBounds() is undefined: bounds.left throws
                    /\ selection' = {}
                    /\ UNCHANGED <<shapes, assets, nextId>>
               ELSE /\ assets' = IF v.videos > 0 THEN assets @@ (nextId :> VideoAsset)
                                                 ELSE assets
                    /\ shapes' = DeleteShapes(shapes, {flow.placeholderId}) @@ inserted
                    /\ selection' = Select(shapes', {lastId})
                    /\ nextId' = IF v.videos > 0
                                   THEN lastId + Cardinality(src) + 1 ELSE nextId
  /\ flow' = [flow EXCEPT !.status = "done"]
  /\ UNCHANGED <<chatHistory, chatSession, assistantImage,
                 lastAssistantImageInChat, editingImage, isGenerating, envVars,
                 sessions, pc, inv, outcome, msgCount, toolCalls, tool, executing,
                 outstanding, userImages, userDeletes>>

\* ------------------------------------------------------------------ claims
TransientClass == {"INTERNAL", "code500", "status500"}
ModelCallErrors ==
  SendErrors \cup LaterErrors \cup {"Cannot read properties of undefined (reading '0')"}
HasFunctionCall(parts) == \E j \in DOMAIN parts : parts[j].kind = "functionCall"

\* C1: within one handleAssistantSubmit invocation at most one tool is
\* executing at any time, and no tool is executing while a request to the
\* model (the first message or a function-response) is outstanding: the
\* function-response is sent only after the tool has returned or thrown, and
\* a tool starts only after the reply to the previous request has arrived.
C1_ToolsSerialized ==
  /\ executing <= 1
  /\ outstanding <= 1
  /\ ~(executing > 0 /\ outstanding > 0)
  /\ (tool.status = "running") = (executing = 1)
  /\ (pc \in {"sendFirst", "sendFallback", "awaitModel"}) = (outstanding = 1)
\* a tool that suspended has completed and its function-response is out
C1_Witness ==
  /\ pc = "awaitModel"
  /\ inv.sent.fn.name = "generateImage"
  /\ inv.sent.gen.calls1 > 0
  /\ executing = 0
  /\ outstanding = 1

\* C2: every exception raised by a tool body in the loop (unknown tool name,
\* a generation, edit or bake helper that throws) becomes an error ToolResult
\* that is sent to the model while the invocation goes on; when the invocation
\* throws, the error is one of a model request, never one of a tool.
C2_ToolFailuresBecomeErrorResults ==
  /\ inv.sent.raised # "" =>
       /\ inv.sent.result.status = "error"
       /\ pc \in {"awaitModel", "awaitTool"}
       /\ outcome = Running
  /\ inv.sent.result.status \in {"none", "output", "error"}
  /\ outcome.status = "threw" => outcome.error \in ModelCallErrors
\* a generation helper threw and the model was sent the error result
C2_Witness ==
  /\ pc = "awaitModel"
  /\ inv.sent.fn.name = "removeBackground"
  /\ inv.sent.raised = "Gemini did not return images"
  /\ inv.sent.result.status = "error"

\* C3: no model response that contains a function-call part is appended to
\* chatHistory; an invocation that completes has appended exactly one user
\* turn and then one model turn, the post-loop response, without function-call.
C3_NoFunctionCallInTranscript ==
  /\ \A i \in DOMAIN chatHistory : ~HasFunctionCall(chatHistory[i].parts)
  /\ outcome.status = "returned" =>
       /\ Len(chatHistory) >= 2
       /\ chatHistory[Len(chatHistory) - 1].role = "user"
       /\ chatHistory[Len(chatHistory)].role = "model"

\* C4 (as amended): for each user message, a new Flash session is created
\* and contacted if and only if the message's first call, made on the session
\* stored at submission (the primary model's until a fallback has happened,
\* the latest Flash session afterwards), failed with a transient-class error
\* (INTERNAL / 500); this happens at most once per message, after one
\* informational notification, with the identical user parts, and the new
\* session becomes the stored session; when the first failure is not of the
\* transient class, or the fallback call fails too, the failure propagates to
\* the caller and no further session is contacted.
C4_FallbackStep ==
  /\ pc' = "sendFirst" => pc = "idle"
  /\ Len(sessions') > Len(sessions) =>
       \/ pc = "idle" /\ chatSession = 0
       \/ pc = "sendFirst" /\ pc' = "sendFallback"
  /\ (pc = "sendFirst" /\ pc' = "sendFallback") =>
       /\ inv'.firstError \in TransientClass
       /\ Len(sessions') = Len(sessions) + 1
       /\ sessions'[Len(sessions')] =
            [model |-> FALLBACK_MODEL_NAME,
             history |-> <<>>,
             received |-> <<UserMessage(msgCount, TRUE)>>]
       /\ \A c \in DOMAIN sessions : sessions'[c] = sessions[c]
       /\ inv'.sent = SentUser(inv.userParts)
       /\ inv'.userParts = inv.userParts
       /\ toasts' = Append(toasts, "Assistente (Pro) indisponivel")
       /\ chatSession' = Len(sessions')
  /\ (pc = "sendFirst" /\ outcome'.status = "threw"
        /\ outcome'.error \in SendErrors) =>
       /\ outcome'.error \notin TransientClass
       /\ sessions' = sessions
  /\ (pc = "sendFallback" /\ outcome'.status = "threw"
        /\ outcome'.error \in LaterErrors) =>
       /\ sessions' = sessions
       /\ pc' = "idle"
C4_FallbackIffFirstCallTransient == [][C4_FallbackStep]_vars
\* the first call of a message went to a Flash session, failed with a
\* transient error, and a further Flash session was contacted
C4_Witness ==
  /\ pc = "sendFallback"
  /\ inv.firstError = "INTERNAL"
  /\ sessions[inv.chat].model = FALLBACK_MODEL_NAME
  /\ chatSession = Len(sessions)
  /\ chatSession # inv.chat
\* C4 (as stated): for each user message the Flash model is contacted if and
\* only if the primary model's call for that message failed with a
\* transient-class error, and at most once: every user message a Flash
\* session received is the resend of a message that a primary-model session
\* received first, and no message reached two Flash sessions.
C4_FlashOnlyAfterPrimaryFailure ==
  \A c \in DOMAIN sessions :
    sessions[c].model = FALLBACK_MODEL_NAME =>
      \A j \in DOMAIN sessions[c].received :
        LET m == sessions[c].received[j]
        IN m.kind = "user" =>
             /\ m.resent
             /\ \E d \in DOMAIN sessions :
                  /\ sessions[d].model = GEMINI_MODEL_NAME
                  /\ \E k \in DOMAIN sessions[d].received :
                       sessions[d].received[k] = UserMessage(m.msg, FALSE)
             /\ \A d \in DOMAIN sessions :
                  (d # c /\ sessions[d].model = FALLBACK_MODEL_NAME) =>
                    \A k \in DOMAIN sessions[d].received :
                      ~(sessions[d].received[k].kind = "user"
                          /\ sessions[d].received[k].msg = m.msg)

\* C5: a user request that never obtains a model response (the first call
\* fails without fallback, or the first and the fallback call both fail)
\* leaves chatHistory as it was before the request.
C5_FailedRequestStep ==
  (pc \in {"sendFirst", "sendFallback"} /\ outcome'.status = "threw"
     /\ outcome'.error \in SendErrors \cup LaterErrors) =>
    chatHistory' = inv.transcript
C5_FailedRequestLeavesTranscript == [][C5_FailedRequestStep]_vars

\* C6: when a tool that needs a base image (editImage, removeBackground,
\* upscaleImage, applyOverlay, composeAI) is called without explicit shape
\* ids and no image has ever been attached to the chat, the tool ends at once
\* with an error ToolResult, and shapes, assets and the mask-editor state are
\* what they were before the call.
BaseImageTools ==
  {"editImage", "removeBackground", "upscaleImage", "applyOverlay", "composeAI"}
\* this step is the loop body taking up function-call c
TakesUp(c) ==
  /\ pc \in {"sendFirst", "sendFallback", "awaitModel"}
  /\ tool.status = "none"
  /\ \/ tool'.status = "running" /\ tool'.fn = c
     \/ inv'.iter = inv.iter + 1 /\ inv'.sent.fn = c /\ pc' = "awaitModel"
C6_Step ==
  \A c \in ToolCalls :
    (/\ TakesUp(c)
     /\ c.name \in BaseImageTools
     /\ c.args.baseShapeId = 0
     /\ c.args.overlayShapeId = 0
     /\ lastAssistantImageInChat = NoImage
     /\ inv.image = NoImage) =>
      /\ tool' = NoTool
      /\ inv'.sent.result.status = "error"
      /\ inv'.sent.raised = ""
      /\ shapes' = shapes
      /\ assets' = assets
      /\ editingImage' = editingImage
C6_NoBaseImageIsAnError == [][C6_Step]_vars
\* composeAI was called without ids, with images on the canvas but none ever
\* attached, and answered with an error
C6_Witness ==
  /\ pc = "awaitModel"
  /\ inv.sent.fn.name = "composeAI"
  /\ inv.sent.fn.args.baseShapeId = 0
  /\ inv.sent.fn.args.overlayShapeId = 0
  /\ lastAssistantImageInChat = NoImage
  /\ inv.sent.result.status = "error"
  /\ \E x \in DOMAIN shapes : shapes[x].type = "image"

\* C7: generateImages(prompt, ref, N) makes one first pass of N attempts; a
\* retry pass of N attempts with the augmented prompt is made exactly when the
\* first pass yielded no image, with or without a reference image; there is
\* no further pass; the call fails with 'did not return images' exactly when
\* both passes yielded nothing. (An attempt whose request itself fails ends
\* the call with that failure.)
C7_SingleRetryPass ==
  LET g == inv.sent.gen
  IN g.status # "none" =>
       /\ g.calls1 <= g.n
       /\ g.calls2 <= g.n
       /\ g.calls2 > 0 => (g.calls1 = g.n /\ g.images1 = 0)
       /\ g.error # "network error" =>
            /\ g.calls1 = g.n
            /\ g.images1 = 0 => g.calls2 = g.n
            /\ g.images1 > 0 => (g.calls2 = 0 /\ g.images = g.images1)
            /\ (g.status = "threw") = (g.images = 0)
            /\ g.status = "threw" => g.error = "Gemini did not return images"
            /\ g.status = "returned" => g.error = ""
\* with a reference image, the first pass gave nothing and the retry an image
C7_Witness ==
  /\ inv.sent.gen.status = "returned"
  /\ inv.sent.gen.hasRef
  /\ inv.sent.gen.calls1 = inv.sent.gen.n
  /\ inv.sent.gen.calls2 = inv.sent.gen.n
  /\ inv.sent.gen.images > 0

\* C8: when the primary video operation completes with a non-empty
\* safety-filter reason list, generateVideo fails with that reason and the
\* FAL provider is not invoked, whatever the toggle and the credential are.
C8_FilteredVideoFailsWithoutFallback ==
  inv.sent.vid.filtered =>
    /\ inv.sent.vid.status = "threw"
    /\ inv.sent.vid.falCalls = 0

\* C9: when the primary video provider fails and the video fallback is
\* disabled or no FAL credential is configured, generateVideo fails and the
\* generateVideo tool yields an error ToolResult; after a generateVideo call
\* the tool never reports success when no video was inserted on the canvas.
C9_FailedVideoIsAnError ==
  /\ (inv.sent.vid.primary = "threw" /\ ~(falKey /\ falVideo)) =>
       /\ inv.sent.vid.status = "threw"
       /\ inv.sent.result.status = "error"
  /\ (inv.sent.vid.status # "none" /\ inv.sent.result.status = "output") =>
       /\ inv.sent.vid.videos > 0
       /\ \E x \in DOMAIN shapes : shapes[x].type = "video"

\* C10: when applyOverlay or composeAI is called without explicit shape ids,
\* the overlay it resolves is never the shape it resolves as base; when there
\* is no such overlay the tool answers with an error and leaves the canvas.
C10_Step ==
  \A c \in ToolCalls :
    (/\ TakesUp(c)
     /\ c.name \in {"applyOverlay", "composeAI"}
     /\ c.args.baseShapeId = 0
     /\ c.args.overlayShapeId = 0) =>
      IF tool'.status = "running"
        THEN tool'.baseId # tool'.overlayId
        ELSE /\ inv'.sent.result.status = "error"
             /\ canvasVars' = canvasVars
C10_OverlayIsNotBase == [][C10_Step]_vars

\* C11: after applyOverlay returns ok for a base and an overlay shape, the
\* base shape still exists and is the selected shape, its asset has been
\* replaced by the composed image, the overlay shape no longer exists, and no
\* other shape or asset was created, changed or deleted; when applyOverlay
\* returns an error, no asset was updated and no shape was deleted.
BakeEnds ==
  /\ tool.status = "running"
  /\ tool.pc = "bakeOverlay"
  /\ tool'.status = "none"
C11_Step ==
  /\ BakeEnds =>
       LET b == tool.baseId
           o == tool.overlayId
           a == shapes[b].assetId
       IN IF inv'.sent.result.status = "output"
            THEN /\ HasShape(shapes', b)
                 /\ selection' = {b}
                 /\ a \in DOMAIN assets'
                 /\ assets'[a].type = "image"
                 /\ assets'[a].src.content = "baked"
                 /\ ~HasShape(shapes', o)
                 /\ DOMAIN shapes' = (DOMAIN shapes) \ {o}
                 /\ \A x \in DOMAIN shapes' : shapes'[x] = shapes[x]
                 /\ DOMAIN assets' = DOMAIN assets
                 /\ \A y \in (DOMAIN assets) \ {a} : assets'[y] = assets[y]
            ELSE /\ inv'.sent.result.status = "error"
                 /\ shapes' = shapes
                 /\ assets' = assets
  /\ \A c \in ToolCalls :
       (TakesUp(c) /\ c.name = "applyOverlay" /\ tool'.status = "none") =>
         /\ inv'.sent.result.status = "error"
         /\ shapes' = shapes
         /\ assets' = assets
C11_OverlayBakedIntoBase == [][C11_Step]_vars

\* ---- C12
\* the errors applyOverlay reports because a shape or the base asset is
\* unresolved or missing
StructuralErrors ==
  {"Provide base/overlay or select base and use an assistant image as overlay.",
   "Both shapes must be images.",
   "Base asset not found or not an image."}
\* the errors it reports because the browser could not draw the flattened image
RenderingErrors == {"Could not get 2D context.", "Failed to bake overlay"}
\* the function response last sent answers an applyOverlay call
SentApplyOverlay ==
  inv.sent.fn.kind = "functionCall" /\ inv.sent.fn.name = "applyOverlay"

\* C12 as stated: applyOverlay asks no model or media provider, and an error
\* result of it names a structural reason only (unresolved or missing shape,
\* missing or non-image base asset).
C12_OnlyStructuralErrors ==
  SentApplyOverlay =>
    /\ inv.sent.gen.status = "none" /\ inv.sent.vid.status = "none"
    /\ inv.sent.edits = 0
    /\ inv.sent.result.status = "error" => inv.sent.result.text \in StructuralErrors

\* C12 amended: applyOverlay asks no model or media provider (no generateImages,
\* generateVideo or editImage call is made for it), and an error result of it
\* names a structural reason or a local drawing failure of the browser canvas,
\* never a model or network error.
C12_NoModelCallLocalErrorsOnly ==
  SentApplyOverlay =>
    /\ inv.sent.gen.status = "none" /\ inv.sent.vid.status = "none"
    /\ inv.sent.edits = 0
    /\ inv.sent.result.status \in {"output", "error"}
    /\ inv.sent.result.status = "error" =>
         inv.sent.result.text \in StructuralErrors \cup RenderingErrors
\* an applyOverlay call that went through the drawing and ended with an error
C12_Witness ==
  /\ SentApplyOverlay
  /\ inv.sent.result.status = "error"
  /\ inv.sent.result.text \in RenderingErrors
  /\ inv.sent.edits = 0

\* ---- C13
\* this step ends a suspended tool with an error result
ToolEndsWithError ==
  /\ tool.status = "running"
  /\ tool'.status = "none"
  /\ inv'.sent.result.status = "error"
\* C13: whenever a tool invocation of the loop ends with an error result, no
\* placeholder it created and no other shape it added (the temporary prompt
\* text shape) is left on the canvas.
C13_Step ==
  /\ ToolEndsWithError =>
       /\ tool.placeholderId # 0 => ~HasShape(shapes', tool.placeholderId)
       /\ tool.textShapeId # 0 => ~HasShape(shapes', tool.textShapeId)
  /\ \A c \in ToolCalls :
       (TakesUp(c) /\ tool'.status = "none" /\ inv'.sent.result.status = "error") =>
         DOMAIN shapes' \subseteq DOMAIN shapes
C13_ErrorLeavesNoAddedShape == [][C13_Step]_vars

\* ---- C14
\* this step is handleAssistantSubmit taking a new user message
SubmitStep == msgCount' = msgCount + 1
\* C14: every user message that attaches an image sets lastAssistantImageInChat
\* to that image, and nothing else changes it: a user message without an
\* attachment, a tool execution, a user gesture and the prompt bar clearing its
\* pending attachment after a submission all leave it as it was, so it always
\* is the most recently attached image.
C14_Step ==
  IF SubmitStep /\ assistantImage # NoImage
    THEN lastAssistantImageInChat' = assistantImage
    ELSE lastAssistantImageInChat' = lastAssistantImageInChat
C14_LastImageIsLatestAttachment == [][C14_Step]_vars
\* the second user message has no attachment, a tool of it has run, the prompt
\* bar holds no attachment, and the image of the first message is still the
\* implicit reference
C14_Witness ==
  /\ msgCount = 2
  /\ pc = "awaitModel"
  /\ inv.image = NoImage
  /\ assistantImage = NoImage
  /\ inv.sent.fn.kind = "functionCall"
  /\ lastAssistantImageInChat # NoImage

\* ---- C15
\* C15: when the model calls generateImage while a reference image is
\* available in the chat context (attached in this or in an earlier user
\* message), generateImages receives that image together with the prompt; when
\* none is available it receives the prompt only.
C15_ReferenceReachesGenerateImages ==
  (/\ inv.sent.fn.kind = "functionCall"
   /\ inv.sent.fn.name = "generateImage"
   /\ inv.sent.gen.status # "none") =>
    (inv.sent.gen.hasRef <=> ImageForToolContext(inv) # NoSrc)

\* ---- C16
\* the loop body takes up an editImage call of a user message with an attachment
EditImageOnAttachment(c) ==
  /\ TakesUp(c)
  /\ c.name = "editImage"
  /\ inv.image # NoImage
\* the attached shape and its asset are still on the canvas
AttachmentResolvable ==
  /\ HasShape(shapes, inv.image.shapeId)
  /\ shapes[inv.image.shapeId].assetId \in DOMAIN assets
\* the editor is opened on the attached shape's asset with the prompt prefilled,
\* the result is ok at once, the canvas is unchanged, and an overlay is passed
\* exactly when a previously attached image with another shape id exists
OpensMaskEditor ==
  /\ tool'.status = "none"
  /\ inv'.sent.result = Ok("Opened mask editor.")
  /\ HasShape(shapes, inv.image.shapeId)
  /\ editingImage'.assetId = shapes[inv.image.shapeId].assetId
  /\ editingImage'.initialPrompt
  /\ shapes' = shapes /\ assets' = assets
  /\ editingImage'.overlaySrc # NoSrc <=>
       (inv.last # NoImage /\ inv.last.shapeId # inv.image.shapeId)
  /\ editingImage'.overlaySrc # NoSrc => editingImage'.overlaySrc = inv.last.src

\* C16 as stated: whenever a user message attaches an image and the model then
\* calls editImage, the mask editor opens on the attached image's shape and the
\* result is ok.
C16_OriginalStep == \A c \in ToolCalls : EditImageOnAttachment(c) => OpensMaskEditor
C16_EditImageAlwaysOpensEditor == [][C16_OriginalStep]_vars

\* C16 amended: when a user message attaches an image whose shape and asset are
\* still on the canvas and the model then calls editImage, the mask editor opens
\* on that shape's asset with the prompt prefilled, the result is ok without
\* waiting for the user's edit, no canvas shape or asset changes, and an overlay
\* is passed only if a previously attached chat image with a different shape id
\* exists.
C16_Step ==
  \A c \in ToolCalls :
    (EditImageOnAttachment(c) /\ AttachmentResolvable) => OpensMaskEditor
C16_EditImageOpensEditorOnAttachment == [][C16_Step]_vars
\* the editor was opened by editImage on an attached image, with the image of
\* an earlier message as overlay
C16_Witness ==
  /\ inv.sent.fn.kind = "functionCall"
  /\ inv.sent.fn.name = "editImage"
  /\ inv.sent.result = Ok("Opened mask editor.")
  /\ inv.image # NoImage
  /\ editingImage # NoEditing
  /\ editingImage.overlaySrc # NoSrc

\* ---- C17
\* C17: the plan tool never fails: whatever the model sends as `steps` (absent,
\* empty, or of any value type) the result is ok, and executing plan changes
\* neither the canvas nor the implicit context and runs none of the steps.
C17_Step ==
  \A c \in ToolCalls :
    (TakesUp(c) /\ c.name = "plan") =>
      /\ tool'.status = "none"
      /\ inv'.sent.result.status = "output"
      /\ inv'.sent.gen.status = "none" /\ inv'.sent.vid.status = "none"
      /\ inv'.sent.edits = 0
      /\ shapes' = shapes /\ assets' = assets /\ selection' = selection
      /\ lastAssistantImageInChat' = lastAssistantImageInChat
      /\ assistantImage' = assistantImage
C17_PlanNeverFails == [][C17_Step]_vars

\* ---- C18
\* this step is handleAssistantSubmit returning / throwing
Returns == outcome.status = "running" /\ outcome'.status = "returned"
Rejects == outcome.status = "running" /\ outcome'.status = "threw"
\* a return appends the final model turn, whose first part is not a
\* function-call; the invocation is left otherwise only by a failed or
\* malformed answer to a model request
C18_ExitStep ==
  /\ Returns =>
       /\ Len(chatHistory') = Len(chatHistory) + 1
       /\ LET turn == chatHistory'[Len(chatHistory')]
          IN /\ turn.role = "model"
             /\ Len(turn.parts) > 0
             /\ turn.parts[1].kind # "functionCall"
  /\ Rejects => outcome'.error \in ModelCallErrors
\* C18: if every model request and every tool execution terminates and the
\* model eventually answers with a response whose first part is not a
\* function-call, handleAssistantSubmit eventually terminates; when it returns
\* it has appended the final model turn, and it never leaves the loop while the
\* latest response's first part is a function-call unless a model request fails.
C18_LoopTerminates ==
  /\ [][C18_ExitStep]_vars
  /\ []<>(outcome.status # "running")
\* an invocation that went through a tool call has returned with the final
\* model turn appended
C18_Witness ==
  /\ outcome.status = "returned"
  /\ toolCalls > 0
  /\ Len(chatHistory) > 0
  /\ chatHistory[Len(chatHistory)].role = "model"

\* ---- C19
\* session s received the resend of user message n (it is the secondary session
\* of that message)
ResentTo(s, n) ==
  \E j \in DOMAIN sessions[s].received :
    sessions[s].received[j] = UserMessage(n, TRUE)
\* session c received a function-response of user message n
FunctionResponseTo(c, n) ==
  \E k \in DOMAIN sessions[c].received :
    sessions[c].received[k] = FunctionResponseMessage(n)
\* C19: after a model-tier fallback within a user message the loop proceeds on
\* the secondary session: every function-response of that message is sent to
\* the session that issued the function-call (the secondary one), never to the
\* primary session whose request failed.
C19_FunctionResponsesFollowFallback ==
  \A s \in DOMAIN sessions : \A c \in DOMAIN sessions : \A n \in 1..MaxMessages :
    (ResentTo(s, n) /\ FunctionResponseTo(c, n)) => c = s

\* ---- C20
\* C20: the request retried on the secondary model continues the same logical
\* conversation: the turns exchanged before the failing user message are part
\* of the context the secondary session starts from, not only the current user
\* message.
C20_FallbackKeepsEarlierTurns ==
  (pc = "sendFallback" /\ ResentTo(chatSession, msgCount)) =>
    \A j \in DOMAIN inv.transcript :
      /\ j \in DOMAIN sessions[chatSession].history
      /\ sessions[chatSession].history[j] = inv.transcript[j]

\* ---- C21
\* C21: every assistant submission eventually returns the prompt bar to the
\* non-generating state, also when the model request fails after the fallback
\* or a function-response request fails in the loop, so that another
\* submission can be accepted.
C21_GeneratingEnds == isGenerating ~> ~isGenerating

\* ---- C22
\* the function-responses the sessions received for user message n
FunctionResponsesOf(n) ==
  {p \in UNION {{<<s, k>> : k \in DOMAIN sessions[s].received} : s \in DOMAIN sessions} :
     sessions[p[1]].received[p[2]] = FunctionResponseMessage(n)}
\* this step sends one function-response of the current message and nothing else
SendsOneFunctionResponse ==
  /\ \E c \in DOMAIN sessions :
       sessions' = SendMessage(sessions, c, FunctionResponseMessage(msgCount))
  /\ inv'.iter = inv.iter + 1
  /\ inv'.sent.fn.kind = "functionCall"
\* C22: for each model response at most one tool call is executed, the
\* function-call of the response's first part; each executed call is consumed
\* once and answered by exactly one function-response with the same tool name,
\* sent before any other message goes to the model.
C22_Step ==
  /\ \A c \in ToolCalls :
       TakesUp(c) =>
         /\ \E r \in Responses : Len(r) > 0 /\ r[1] = c
         /\ IF tool'.status = "running"
              THEN sessions' = sessions /\ inv'.iter = inv.iter /\ pc' = "awaitTool"
              ELSE SendsOneFunctionResponse
  /\ (tool.status = "running" /\ tool'.status = "none") =>
       /\ SendsOneFunctionResponse
       /\ inv'.sent.fn = tool.fn
  /\ (tool.status = "running" /\ tool'.status = "running") =>
       sessions' = sessions /\ tool'.fn = tool.fn
  /\ (outcome.status = "running" /\ outcome'.status = "running"
      /\ inv'.iter # inv.iter) => SendsOneFunctionResponse
C22_OneResponsePerCall ==
  /\ [][C22_Step]_vars
  /\ [](outcome.status = "running" =>
          /\ Cardinality(FunctionResponsesOf(msgCount)) = inv.iter
          /\ tool.status = "running" => pc = "awaitTool")
\* a tool that had suspended has been answered by its function-response
C22_Witness ==
  /\ pc = "awaitModel"
  /\ inv.iter = 1
  /\ inv.sent.fn.kind = "functionCall"
  /\ inv.sent.gen.status # "none"
  /\ Cardinality(FunctionResponsesOf(msgCount)) = 1

\* ---- C23
\* C23: in generateVideo the FAL provider is invoked at most once per call, and
\* only when the primary provider's attempt failed, a FAL credential is
\* configured and the video fallback switch is on; it is never invoked when the
\* primary returned videos.
C23_FalVideoOnlyAfterPrimaryFailure ==
  inv.sent.vid.status # "none" =>
    /\ inv.sent.vid.falCalls <= 1
    /\ inv.sent.vid.falCalls = 1 =>
         /\ inv.sent.vid.primary \in {"threw", "fellThrough"}
         /\ falKey
         /\ falVideo
    /\ inv.sent.vid.primary = "returned" => inv.sent.vid.falCalls = 0
\* a generateVideo call whose primary attempt failed went on to FAL
C23_Witness ==
  /\ inv.sent.vid.status # "none"
  /\ inv.sent.vid.primary = "threw"
  /\ inv.sent.vid.falCalls = 1

\* ---- C24
\* this step sends the function-response of a tool that failed with an exception
ToolFailureAnswered == inv'.iter = inv.iter + 1 /\ inv'.sent.raised # ""
\* C24: in the assistant loop a tool failure of the 'did not return images'
\* kind yields one informational notice with guidance and an error result
\* carrying the guidance text; every other tool failure yields an error result
\* whose text is the exception's message, and no such notice.
C24_Step ==
  ToolFailureAnswered =>
    IF inv'.sent.raised = "Gemini did not return images"
      THEN /\ toasts' = Append(toasts, "Nenhuma imagem gerada")
           /\ inv'.sent.result = Err("O modelo nao retornou imagem.")
      ELSE /\ toasts' = toasts
           /\ inv'.sent.result = Err(inv'.sent.raised)
C24_NoImagesFailureIsRecognized == [][C24_Step]_vars
\* a tool failed because no image came back: the notice is up and the result
\* carries the guidance
C24_Witness ==
  /\ inv.sent.raised = "Gemini did not return images"
  /\ inv.sent.result = Err("O modelo nao retornou imagem.")
  /\ Len(toasts) > 0
  /\ toasts[Len(toasts)] = "Nenhuma imagem gerada"

\* ---- C25
\* this step ends the toolbar's generation / the assistant's tool
FlowEnds == flow.status = "running" /\ flow'.status = "done"
ToolEnds == tool.status = "running" /\ tool'.status = "none"
\* C25: when an assistant tool and a generation started from the toolbar are
\* in flight at the same time, each of them, when it succeeds or fails, deletes
\* the placeholder it created and never the other's, and once both have
\* finished no placeholder remains on the canvas.
C25_Step ==
  /\ FlowEnds =>
       /\ ~HasShape(shapes', flow.placeholderId)
       /\ (tool.status = "running" /\ HasShape(shapes, tool.placeholderId)) =>
            HasShape(shapes', tool.placeholderId)
  /\ (ToolEnds /\ flow.status # "none") =>
       /\ tool.placeholderId # 0 => ~HasShape(shapes', tool.placeholderId)
       /\ (flow.status = "running" /\ HasShape(shapes, flow.placeholderId)) =>
            HasShape(shapes', flow.placeholderId)
C25_NoPlaceholderWhenQuiet ==
  (flow.status = "done" /\ tool.status = "none") =>
    \A x \in DOMAIN shapes : shapes[x].type # "placeholder"
C25_EachFlowRemovesItsPlaceholder ==
  /\ [][C25_Step]_vars
  /\ []C25_NoPlaceholderWhenQuiet

\* ---- C26
\* this step ends a composeAI call that had reached the mask-edit request
ComposeEnds == ToolEnds /\ tool.pc = "composeAI"
\* C26: composeAI returns an ok result only if the base shape's asset was
\* overwritten with the AI result; when the mask-edit call yields no image, or
\* the base asset is missing or not an image, the result is an error and the
\* base asset is unchanged.
C26_Step ==
  ComposeEnds =>
    LET a == shapes[tool.baseId].assetId
    IN IF inv'.sent.result.status = "output"
         THEN /\ a \in DOMAIN assets'
              /\ assets'[a].type = "image"
              /\ assets'[a].src.content = "composed"
         ELSE /\ inv'.sent.result.status = "error"
              /\ assets' = assets
C26_OkOnlyIfAssetOverwritten == [][C26_Step]_vars

\* ------------------------------------------------------------------- C27
\* the generateImage tool sends its function response in this step
GenerateImageAnswers ==
  /\ toolCalls' = toolCalls + 1
  /\ inv'.sent.fn.name = "generateImage"
\* the image shapes a step puts on the canvas
AddedImageShapes ==
  {id \in DOMAIN shapes' \ DOMAIN shapes : shapes'[id].type = "image"}
\* C27: the number of images the generateImage tool reports in its ok result
\* equals the number of image shapes the invocation inserted on the canvas,
\* also when only some of the requested attempts returned an image.
C27_Step ==
  (GenerateImageAnswers /\ inv'.sent.result.status = "output") =>
    inv'.sent.result.count = Cardinality(AddedImageShapes)
C27_ReportedCountIsInsertedCount == [][C27_Step]_vars

\* ------------------------------------------------------------------- C28
\* a submission is in flight: handleAssistantSubmit has not settled
SubmissionInFlight ==
  pc # "idle" \/ tool.status = "running" \/ outstanding > 0 \/ executing > 0
\* C28: at most one prompt-bar submission (and so at most one orchestration
\* loop) is in flight at any time: while a submission has not completed,
\* handleRun returns at its guard for every prompt and attachment, so a further
\* submit event starts no second handleAssistantSubmit; and a submission
\* starts only when none is in flight.
C28_Step ==
  (msgCount' = msgCount + 1) =>
    /\ ~SubmissionInFlight
    /\ SubmissionInFlight'
    /\ isGenerating'
ImageFlowOf(g) == IF g.hasRef THEN "img2img" ELSE "text2img"
\* a tool that called generateImages sends its function response in this step
GenerateImagesSettles ==
  /\ toolCalls' = toolCalls + 1
  /\ inv'.sent.gen.status \in {"returned", "threw"}
\* C29: when the primary image model fails or returns no image and the FAL
\* fallback of that image flow is enabled with a FAL_KEY configured, the FAL
\* fallback is invoked; when the toggle is off or no key is set it is not.
C29_Step ==
  GenerateImagesSettles =>
    LET g == inv'.sent.gen
    IN (g.falCalls > 0) <=>
         (g.status = "threw" /\ falKey /\ ImageFlowOf(g) \in falImage)
C29_FalImageFallbackInvoked == [][C29_Step]_vars

\* ------------------------------------------------------------------- C30
\* a connector from shape `a` to shape `b` is on the canvas
Connected(ss, a, b) ==
  \E c \in DOMAIN ss :
    ss[c].type = "arrow" /\ ss[c].from = a /\ ss[c].to = b
\* C30: after the generateImage tool succeeds for a user message without an
\* image, each inserted image shape is connected by a connector to the
\* originating prompt text shape, and that text shape and the connector still
\* exist on the canvas when the tool returns.
C30_Step ==
  (/\ GenerateImageAnswers
   /\ inv'.sent.result.status = "output"
   /\ inv.image = NoImage
   /\ AddedImageShapes # {}) =>
    /\ HasShape(shapes', tool.textShapeId)
    /\ shapes'[tool.textShapeId].type = "text"
    /\ \A id \in AddedImageShapes : Connected(shapes', tool.textShapeId, id)
C30_ImagesStayConnectedToPrompt == [][C30_Step]_vars

\* ---------------------------------------------------------- specification
UserAction ==
  \/ UserInsertImage
  \/ UserDeleteShape
  \/ UseInChat
  \/ UserClearAssistantImage
  \/ ToggleFalVideo

Next ==
  \/ UserAction
  \/ Submit
  \/ FirstReplyTransient
  \/ FirstReplyFatal
  \/ FallbackReplyFails
  \/ StartEditImage
  \/ StartPlan
  \/ StartUnknownTool
  \/ StartGenerateImage
  \/ GenImageClickResume
  \/ StartRunEditImage
  \/ RunEditImageResume
  \/ StartGenerateVideo
  \/ GenVideoClickResume
  \/ StartApplyOverlay
  \/ BakeOverlayResume
  \/ StartComposeAI
  \/ ComposeAIResume
  \/ LoopReplyFails
  \/ LoopThrows
  \/ FinalAppend

Spec == Init /\ [][Next]_vars

\* the steps of a handleAssistantSubmit invocation after its first await: the
\* settling of the outstanding model request or of the suspended tool helper
InFlight ==
  /\ pc # "idle"
  /\ \/ FirstReplyTransient
     \/ FirstReplyFatal
     \/ FallbackReplyFails
     \/ StartEditImage
     \/ StartPlan
     \/ StartUnknownTool
     \/ StartGenerateImage
     \/ GenImageClickResume
     \/ StartRunEditImage
     \/ RunEditImageResume
     \/ StartGenerateVideo
     \/ GenVideoClickResume
     \/ StartApplyOverlay
     \/ BakeOverlayResume
     \/ StartComposeAI
     \/ ComposeAIResume
     \/ LoopReplyFails
     \/ LoopThrows
     \/ FinalAppend
\* the gestures that set up what an invocation works on: images on the canvas,
\* the attachment of the prompt bar, the video fallback switch
LiveUserAction ==
  \/ UserInsertImage
  \/ UseInChat
  \/ ToggleFalVideo
LiveNext ==
  \/ LiveUserAction
  \/ Submit
  \/ InFlight
\* the first submission to the assistant on a canvas with images and texts,
\* together with a generation started from the toolbar
FirstSubmit == msgCount = 0 /\ Submit
FlowNext ==
  \/ UserInsertImage
  \/ UserInsertText
  \/ UseInChat
  \/ FirstSubmit
  \/ InFlight
  \/ ToolbarGenVideo
  \/ ToolbarGenVideoResume
FlowSpec == Init /\ [][FlowNext]_vars

\* the first submission to the assistant after the user has set the image
\* checkboxes of the fallback panel
FalNext ==
  \/ ToggleFalImage
  \/ UserInsertImage
  \/ UseInChat
  \/ FirstSubmit
  \/ InFlight
FalSpec == Init /\ [][FalNext]_vars

\* every awaited promise (a model request, a tool helper) settles, and the
\* event loop then runs the continuation
LiveSpec == Init /\ [][LiveNext]_vars /\ WF_vars(InFlight)

====
